---- MODULE Spec2Model ----
(***************************************************************************)
(* A model of the dndgame combat and character-progression engine:         *)
(* Entity / Character (character.py), Combat (combat.py), Spell            *)
(* (spells.py), the weapon registry (weapons.py) and the dice (dice.py).   *)
(* An exception raised by a method is recorded in last.err; the            *)
(* assignments the method made before raising are kept, as in Python.      *)
(***************************************************************************)
EXTENDS Integers, Sequences, FiniteSets, TLC

VARIABLES
    stats,            \* entity -> ability scores (the empty function before roll_stats)
    hp,               \* entity -> current hit points
    max_hp,           \* entity -> maximum hit points
    armor_class,      \* entity -> armor class
    weapon,           \* entity -> name of the equipped weapon, or "None"
    race,             \* Character.race
    base_hp,          \* Character.base_hp
    level,            \* Character.level
    xp,               \* Character.xp
    known_spells,     \* Character.known_spells, a list of spell names
    spell_slots,      \* Character.spell_slots, spell level -> remaining slots
    max_spell_slots,  \* Character.max_spell_slots, spell level -> capacity
    slots_aliased,    \* spell_slots and max_spell_slots are one and the same dict
    round,            \* Combat.round
    initiative_order, \* Combat.initiative_order
    returned,         \* the list the last roll_initiative or
                      \* get_available_spells returned
    last,             \* the last call: its arguments, result and exception
    die,              \* the d20 the last attack rolled, when the caller watches it
    die_enemy,        \* the enemy's d20 of the last roll_initiative, when watched
    dealt,            \* entity -> sum of the damages attack returned against it
    cast_count,       \* spell level -> casts that returned since the slots were last
                      \* refilled, when the caller counts them
    steps,            \* number of calls made so far, when the run is counted
    pc,               \* where control is: "main" (outside start_combat), or inside
                      \* it "player_turn", "enemy_turn", "round_end"; "quit" once
                      \* main's loop is left, "raised" after an uncaught exception
    victory,          \* main's victory, what the last start_combat returned
    acted,            \* the entities that acted in the current round, in order
    enabled,          \* DungeonMaster.enabled
    service           \* what the narration service did in the last narrate_* call:
                      \* "idle" (not contacted), "answered", "failed"

vars == <<stats, hp, max_hp, armor_class, weapon, race, base_hp, level, xp,
          known_spells, spell_slots, max_spell_slots, slots_aliased, round,
          initiative_order, returned, last, die, die_enemy, dealt, cast_count,
          steps, pc, victory, acted, enabled, service>>

(***************************************************************************)
(* Bounds of the model.                                                    *)
(***************************************************************************)
MaxBaseHp == 3      \* Character(name, race, base_hp) is built with base_hp in 1..MaxBaseHp
MaxXp == 2700       \* gain_xp is explored while xp stays within MaxXp, when xp is capped
MaxSteps == 3       \* calls per counted run
MaxDealt == 6       \* attacks are explored while the damage tally stays within MaxDealt
MaxLevel == 11      \* level_up is explored while level < MaxLevel, when level is capped
MaxRound == 2       \* rounds of an encounter are counted up to MaxRound
MaxActions == 3     \* available_actions holds 0..MaxActions actions
MaxScore == 21      \* ability scores are explored in 1..MaxScore
MaxEntityHp == 2    \* Entity(..., hp) is built with hp in 0..MaxEntityHp

(***************************************************************************)
(* Static tables.                                                          *)
(***************************************************************************)
Entities == {"player", "enemy"}

stats_list == <<"STR", "DEX", "CON", "INT", "WIS", "CHA">>

Abilities == {stats_list[i] : i \in 1..Len(stats_list)}

NoStats == [a \in {} |-> 0]

AllStats(s) == [a \in Abilities |-> s]

XP_TABLE == <<0, 300, 900, 2700, 6500, 14000, 23000, 34000, 48000, 64000>>

SPELL_SLOTS_BY_LEVEL ==
    << <<2, 0, 0>>, <<3, 0, 0>>, <<4, 2, 0>>, <<4, 3, 0>>, <<4, 3, 2>>,
       <<4, 3, 3>>, <<4, 3, 3>>, <<4, 3, 3>>, <<4, 3, 3>>, <<4, 3, 3>> >>

WEAPONS ==
    [ Dagger     |-> [damage_die |-> 4,  damage_dice_count |-> 1],
      Shortsword |-> [damage_die |-> 6,  damage_dice_count |-> 1],
      Longsword  |-> [damage_die |-> 8,  damage_dice_count |-> 1],
      Battleaxe  |-> [damage_die |-> 8,  damage_dice_count |-> 1],
      Greatsword |-> [damage_die |-> 6,  damage_dice_count |-> 2],
      Greataxe   |-> [damage_die |-> 12, damage_dice_count |-> 1],
      Club       |-> [damage_die |-> 4,  damage_dice_count |-> 1],
      Mace       |-> [damage_die |-> 6,  damage_dice_count |-> 1],
      Warhammer  |-> [damage_die |-> 8,  damage_dice_count |-> 1] ]

SPELLS ==
    [ FireBolt      |-> [level |-> 0, spell_power |-> 5],
      RayOfFrost    |-> [level |-> 0, spell_power |-> 4],
      ShockingGrasp |-> [level |-> 0, spell_power |-> 4],
      MagicMissile  |-> [level |-> 1, spell_power |-> 7],
      BurningHands  |-> [level |-> 1, spell_power |-> 6],
      Shield        |-> [level |-> 1, spell_power |-> 0],
      CureWounds    |-> [level |-> 1, spell_power |-> -5],
      ScorchingRay  |-> [level |-> 2, spell_power |-> 10],
      Shatter       |-> [level |-> 2, spell_power |-> 9],
      Fireball      |-> [level |-> 3, spell_power |-> 15],
      LightningBolt |-> [level |-> 3, spell_power |-> 14] ]

\* A spell built outside the registry, as the tests build theirs; Spell
\* accepts any level 0-9 and the slot table has no entry for level 9.
ADHOC_SPELLS ==
    [ Level9    |-> [level |-> 9, spell_power |-> 20],
      TestSpell |-> [level |-> 1, spell_power |-> 5],
      WeakSpell |-> [level |-> 1, spell_power |-> -10] ]

SpellNames == DOMAIN SPELLS \cup DOMAIN ADHOC_SPELLS

Spell(name) == IF name \in DOMAIN SPELLS THEN SPELLS[name] ELSE ADHOC_SPELLS[name]

RACES ==
    [ Human    |-> [STR |-> 1, DEX |-> 1, CON |-> 1, INT |-> 1, WIS |-> 1, CHA |-> 1],
      Elf      |-> [DEX |-> 2],
      Dwarf    |-> [CON |-> 2],
      Halfling |-> [DEX |-> 2, CHA |-> 1],
      Orc      |-> [STR |-> 2, CON |-> 1, INT |-> -1] ]

goblin_stats ==
    [a \in Abilities |->
        CASE a = "STR" -> 8  [] a = "DEX" -> 14 [] a = "CON" -> 10
          [] a = "INT" -> 10 [] a = "WIS" -> 8  [] a = "CHA" -> 8]

goblin_hp == 5

default_armor_class == 10

weapon_max_damage == 6

max_level == 10

goblin_xp_value == 50

(***************************************************************************)
(* Inputs explored: the stat blocks roll_stats may produce, the spells     *)
(* taught and cast, the experience awards.                                 *)
(***************************************************************************)
MixedStats(str, con, int) ==
    [a \in Abilities |->
        CASE a = "STR" -> str [] a = "CON" -> con [] a = "INT" -> int
          [] OTHER -> 10]

StatBlocks == {AllStats(3), AllStats(10), MixedStats(18, 3, 16), MixedStats(8, 16, 3)}

SpellPool == {"FireBolt", "MagicMissile", "CureWounds", "ScorchingRay", "Level9"}

\* One spell of each level 0, 1, 2 and one whose level has no slot entry.
LevelPool == {"FireBolt", "MagicMissile", "ScorchingRay", "Level9"}

\* The armor classes the tests build their defenders with.
ArmorClasses == {5, 10, 12, 20}

WeaponChoices == DOMAIN WEAPONS \cup {"None"}

XpAmounts == {0, 100, 300, 3000, 64000}

CastAwards == {900}

(***************************************************************************)
(* dice.py                                                                 *)
(***************************************************************************)
\* The totals roll(dice_type, number_of_dice) can return.
RECURSIVE roll(_, _)
roll(dice_type, number_of_dice) ==
    IF number_of_dice = 0
    THEN {0}
    ELSE {a + b : a \in 1..dice_type, b \in roll(dice_type, number_of_dice - 1)}

(***************************************************************************)
(* Entity                                                                  *)
(***************************************************************************)
\* The quotient rounded toward zero.
modifier_truncating(score) ==
    IF score >= 10 THEN (score - 10) \div 2 ELSE 0 - ((10 - score) \div 2)

\* (score - 10) // 2 : Python's floor division.
modifier(score) == (score - 10) \div 2

has_stat(s, stat) == stat \in DOMAIN s

is_alive(e) == hp[e] > 0

\* What a call leaves behind for the caller: its arguments (the entities, the
\* spell, a number), the returned number (ret) or boolean (ok), the exception
\* raised ("none" when it returns).
Call(op, actor, target, spell, arg, ret, ok, err) ==
    [op |-> op, actor |-> actor, target |-> target, spell |-> spell,
     arg |-> arg, ret |-> ret, ok |-> ok, err |-> err]

NoCall == Call("new", "player", "player", "", 0, 0, TRUE, "none")

entityVars == <<stats, max_hp, armor_class, weapon>>

progressVars == <<race, base_hp, level, xp>>

spellVars == <<known_spells, spell_slots, max_spell_slots, slots_aliased>>

combatVars == <<round, initiative_order, returned>>

encounterVars == <<pc, victory, acted>>

narratorVars == <<enabled, service>>

\* No narration is requested.
Silent == UNCHANGED narratorVars

\* DungeonMaster(enabled=False), as the tests build it.
NoNarrator ==
    /\ enabled = FALSE
    /\ service = "idle"

\* The call is made outside start_combat.
Outside == UNCHANGED encounterVars

NoEncounter ==
    /\ pc = "main"
    /\ victory = "none"
    /\ acted = <<>>

(***************************************************************************)
(* Combat.attack                                                           *)
(***************************************************************************)
\* A comparison that misses on the armor class itself.
attack_hits_strict(attack_roll, ac) == attack_roll > ac

\* if attack_roll >= defender.armor_class
attack_hits(attack_roll, ac) == attack_roll >= ac

\* attack_roll = roll(20, 1) + ...
d20_rolls == roll(20, 1)

\* damage = roll(weapon_max_damage, 1)
d6_rolls == roll(weapon_max_damage, 1)

\* A weapon whose hits deal nothing.
damage_rolls_blunt(w) == {0}

\* The dice the damage of an attacker holding weapon w is rolled with.
damage_rolls(w) == d6_rolls

\* No damage die is rolled (the attack raised, or missed).
NotRolled == 0

\* A subtraction without the floor.
take_damage_unclamped(h, damage) == h - damage

\* defender.hp -= damage; if defender.hp < 0: defender.hp = 0
take_damage(h, damage) == IF h - damage < 0 THEN 0 ELSE h - damage

\* An attack whose miss still grazes the defender for 1.
attack_grazing(attacker_stats, defender_hp, defender_ac, d20, damage) ==
    IF ~has_stat(attacker_stats, "STR")
    THEN [hp |-> defender_hp, ret |-> 0, err |-> "KeyError", hit |-> FALSE]
    ELSE IF attack_hits(d20 + modifier(attacker_stats["STR"]), defender_ac)
         THEN [hp |-> take_damage(defender_hp, damage), ret |-> damage,
               err |-> "none", hit |-> TRUE]
         ELSE [hp |-> take_damage(defender_hp, 1), ret |-> 0, err |-> "none",
               hit |-> FALSE]

\* attack with the d20 showing d20 and the damage dice showing damage:
\* the defender's hp afterwards, the value returned, the exception raised.
attack(attacker_stats, defender_hp, defender_ac, d20, damage) ==
    IF ~has_stat(attacker_stats, "STR")
    THEN [hp |-> defender_hp, ret |-> 0, err |-> "KeyError", hit |-> FALSE]
    ELSE IF attack_hits(d20 + modifier(attacker_stats["STR"]), defender_ac)
         THEN [hp |-> take_damage(defender_hp, damage), ret |-> damage,
               err |-> "none", hit |-> TRUE]
         ELSE [hp |-> defender_hp, ret |-> 0, err |-> "none", hit |-> FALSE]

Attack(attacker, defender, d20, damage) ==
    /\ d20 \in d20_rolls
    /\ LET o == attack(stats[attacker], hp[defender], armor_class[defender],
                       d20, damage)
       IN  /\ damage \in IF o.hit THEN damage_rolls(weapon[attacker]) ELSE {NotRolled}
           /\ hp' = [hp EXCEPT ![defender] = o.hp]
           /\ last' = Call("attack", attacker, defender, "", 0, o.ret,
                           o.err = "none", o.err)
    /\ UNCHANGED <<entityVars, progressVars, spellVars, combatVars>>

\* A caller that watches the dice and keeps a running total of the damages
\* returned (total_damage += damage).
Watched(d20) ==
    /\ dealt[last'.target] + last'.ret <= MaxDealt
    /\ dealt' = [dealt EXCEPT ![last'.target] = @ + last'.ret]
    /\ die' = d20
    /\ UNCHANGED <<die_enemy, cast_count>>

Unwatched == UNCHANGED <<die, die_enemy, dealt, cast_count>>

(***************************************************************************)
(* Spell.cast and Character.can_cast_spell / cast_spell / rest / add_spell *)
(***************************************************************************)
knows(known, spell) == \E i \in DOMAIN known : known[i] = spell

\* A lookup whose default is one slot.
slots_get_default_one(slots, n) == IF n \in DOMAIN slots THEN slots[n] ELSE 1

\* self.spell_slots.get(spell.level, 0)
slots_get(slots, n) == IF n \in DOMAIN slots THEN slots[n] ELSE 0

can_cast_spell(known, slots, spell) ==
    IF ~knows(known, spell)
    THEN FALSE
    ELSE IF Spell(spell).level = 0
         THEN TRUE
         ELSE slots_get(slots, Spell(spell).level) > 0

\* The damage without its floor.
spell_damage_unfloored(power, int_score) == power + modifier(int_score)

\* damage = self.spell_power + caster.get_modifier("INT"), floored at 0
spell_damage(power, int_score) ==
    IF power + modifier(int_score) < 0 THEN 0 ELSE power + modifier(int_score)

\* A cast that returns the hp it removed from the target.
spell_cast_returns_removed(caster_stats, target_hp, power) ==
    IF ~has_stat(caster_stats, "INT")
    THEN [hp |-> target_hp, ret |-> 0, err |-> "KeyError"]
    ELSE LET damage == spell_damage(power, caster_stats["INT"])
         IN  [hp |-> take_damage(target_hp, damage),
              ret |-> target_hp - take_damage(target_hp, damage), err |-> "none"]

\* Spell.cast: the target's hp afterwards, the value returned, the exception.
spell_cast(caster_stats, target_hp, power) ==
    IF ~has_stat(caster_stats, "INT")
    THEN [hp |-> target_hp, ret |-> 0, err |-> "KeyError"]
    ELSE LET damage == spell_damage(power, caster_stats["INT"])
         IN  [hp |-> take_damage(target_hp, damage), ret |-> damage, err |-> "none"]

\* A cantrip spends a slot of level 1.
use_slot_cantrip_too(slots, n) == [slots EXCEPT ![IF n > 0 THEN n ELSE 1] = @ - 1]

\* spell.cast(caster, target), called on the Spell itself.
SpellCast(spell, caster, target) ==
    /\ LET o == spell_cast(stats[caster], hp[target], Spell(spell).spell_power)
       IN  /\ hp' = [hp EXCEPT ![target] = o.hp]
           /\ last' = Call("cast", caster, target, spell, 0, o.ret,
                           o.err = "none", o.err)
    /\ UNCHANGED <<entityVars, progressVars, spellVars, combatVars>>

\* The slots after the "use a spell slot" step of cast_spell.
use_slot(slots, n) == IF n > 0 THEN [slots EXCEPT ![n] = @ - 1] ELSE slots

CanCastSpell(spell) ==
    /\ last' = Call("can_cast_spell", "player", "player", spell, 0, 0,
                    can_cast_spell(known_spells, spell_slots, spell), "none")
    /\ UNCHANGED <<hp, entityVars, progressVars, spellVars, combatVars>>

CastSpell(spell, target) ==
    IF ~can_cast_spell(known_spells, spell_slots, spell)
    THEN /\ last' = Call("cast_spell", "player", target, spell, 0, 0, FALSE,
                         "ValueError")
         /\ UNCHANGED <<hp, entityVars, progressVars, spellVars, combatVars>>
    ELSE LET o == spell_cast(stats["player"], hp[target], Spell(spell).spell_power)
         IN  /\ spell_slots' = use_slot(spell_slots, Spell(spell).level)
             /\ max_spell_slots' = IF slots_aliased
                                   THEN use_slot(max_spell_slots, Spell(spell).level)
                                   ELSE max_spell_slots
             /\ hp' = [hp EXCEPT ![target] = o.hp]
             /\ last' = Call("cast_spell", "player", target, spell, 0, o.ret,
                             o.err = "none", o.err)
             /\ UNCHANGED <<entityVars, progressVars, known_spells,
                            slots_aliased, combatVars>>

\* A rest that assigns the capacity dict itself, not a copy of it.
rest_without_copy(capacity, full_hp) ==
    [spell_slots |-> capacity, hp |-> full_hp, aliased |-> TRUE]

\* self.spell_slots = self.max_spell_slots.copy(); self.hp = self.max_hp
rest(capacity, full_hp) ==
    [spell_slots |-> capacity, hp |-> full_hp, aliased |-> FALSE]

Rest ==
    /\ LET o == rest(max_spell_slots, max_hp["player"])
       IN  /\ spell_slots' = o.spell_slots
           /\ slots_aliased' = o.aliased
           /\ hp' = [hp EXCEPT !["player"] = o.hp]
    /\ last' = Call("rest", "player", "player", "", 0, 0, TRUE, "none")
    /\ UNCHANGED <<entityVars, progressVars, known_spells, max_spell_slots,
                   combatVars>>

\* Appended without the membership test.
add_spell_always(known, spell) == Append(known, spell)

\* if spell not in self.known_spells: self.known_spells.append(spell)
add_spell(known, spell) ==
    IF knows(known, spell) THEN known ELSE Append(known, spell)

AddSpell(spell) ==
    /\ known_spells' = add_spell(known_spells, spell)
    /\ last' = Call("add_spell", "player", "player", spell, 0, 0, TRUE, "none")
    /\ UNCHANGED <<hp, entityVars, progressVars, spell_slots, max_spell_slots,
                   slots_aliased, combatVars>>

(***************************************************************************)
(* Character.roll_stats / level_up / gain_xp                               *)
(***************************************************************************)
\* The Character as one value, for the methods that call one another.
Self ==
    [stats |-> stats["player"], hp |-> hp["player"], max_hp |-> max_hp["player"],
     level |-> level, xp |-> xp, spell_slots |-> spell_slots,
     max_spell_slots |-> max_spell_slots, slots_aliased |-> slots_aliased,
     ok |-> FALSE, err |-> "none"]

Becomes(c) ==
    /\ stats' = [stats EXCEPT !["player"] = c.stats]
    /\ hp' = [hp EXCEPT !["player"] = c.hp]
    /\ max_hp' = [max_hp EXCEPT !["player"] = c.max_hp]
    /\ level' = c.level
    /\ xp' = c.xp
    /\ spell_slots' = c.spell_slots
    /\ max_spell_slots' = c.max_spell_slots
    /\ slots_aliased' = c.slots_aliased

\* Four dice per ability.
stat_rolls_four_dice == roll(6, 4)

\* roll(6, 3) for each stat of stats_list
stat_rolls == roll(6, 3)

RollStats(rolled) ==
    /\ DOMAIN rolled = Abilities
    /\ \A a \in Abilities : rolled[a] \in stat_rolls
    /\ stats' = [stats EXCEPT !["player"] = rolled]
    /\ max_hp' = [max_hp EXCEPT !["player"] = base_hp + modifier(rolled["CON"])]
    /\ hp' = [hp EXCEPT !["player"] = base_hp + modifier(rolled["CON"])]
    /\ last' = Call("roll_stats", "player", "player", "", 0, 0, TRUE, "none")
    /\ UNCHANGED <<armor_class, weapon, progressVars, spellVars, combatVars>>

\* A missing bonus counted as 1.
bonuses_get_default_one(bonuses, stat) ==
    IF stat \in DOMAIN bonuses THEN bonuses[stat] ELSE 1

\* bonuses.get(stat, 0)
bonuses_get(bonuses, stat) ==
    IF stat \in DOMAIN bonuses THEN bonuses[stat] ELSE 0

\* The bonuses laid over a base of 10 whatever the scores were.
apply_racial_bonuses_over_ten(s, r) ==
    IF r \in DOMAIN RACES
    THEN [a \in DOMAIN s |-> 10 + bonuses_get(RACES[r], a)]
    ELSE s

\* if self.race in RACES:
\*     self.stats = {stat: self.stats[stat] + bonuses.get(stat, 0) for stat in self.stats}
apply_racial_bonuses(s, r) ==
    IF r \in DOMAIN RACES
    THEN [a \in DOMAIN s |-> s[a] + bonuses_get(RACES[r], a)]
    ELSE s

ApplyRacialBonuses ==
    /\ stats' = [stats EXCEPT !["player"] = apply_racial_bonuses(@, race)]
    /\ last' = Call("apply_racial_bonuses", "player", "player", "", 0, 0, TRUE, "none")
    /\ UNCHANGED <<hp, max_hp, armor_class, weapon, progressVars, spellVars,
                   combatVars>>

\* roll(10, 1)
d10_rolls == roll(10, 1)

\* roll(len(stats_list), 1)
pick_all == roll(Len(stats_list), 1)

\* The increase without its floor.
hp_increase_unfloored(d10, con_score) == d10 + modifier(con_score)

\* hp_increase = roll(10, 1) + CON modifier; if hp_increase < 1: hp_increase = 1
hp_increase(d10, con_score) ==
    IF d10 + modifier(con_score) < 1 THEN 1 ELSE d10 + modifier(con_score)

\* An improvement at every level.
earns_improvement_always(lvl) == lvl % 1 = 0

\* self.level % 4 == 0
earns_improvement(lvl) == lvl % 4 = 0

\* New capacity from the table, the current slots left as they were.
refresh_slots_capacity_only(c) ==
    [c EXCEPT !.max_spell_slots = SPELL_SLOTS_BY_LEVEL[c.level]]

\* self.max_spell_slots = SPELL_SLOTS_BY_LEVEL[self.level].copy()
\* self.spell_slots = self.max_spell_slots.copy()
refresh_slots(c) ==
    [c EXCEPT !.max_spell_slots = SPELL_SLOTS_BY_LEVEL[c.level],
              !.spell_slots = SPELL_SLOTS_BY_LEVEL[c.level],
              !.slots_aliased = FALSE]

\* level_up with the hit die showing d10 and, when an ability improves, the
\* die that picks it showing pick.  Each lookup that fails raises KeyError
\* and keeps what was assigned before it.
level_up(c, d10, pick) ==
    LET c1 == [c EXCEPT !.level = c.level + 1]
    IN  IF ~has_stat(c1.stats, "CON")
        THEN [c1 EXCEPT !.err = "KeyError"]
        ELSE LET grown == c1.max_hp + hp_increase(d10, c1.stats["CON"])
                 c2 == [c1 EXCEPT !.max_hp = grown, !.hp = grown]
             IN  IF c2.level \notin DOMAIN SPELL_SLOTS_BY_LEVEL
                 THEN [c2 EXCEPT !.err = "KeyError"]
                 ELSE LET c3 == refresh_slots(c2)
                      IN  IF earns_improvement(c3.level)
                          THEN [c3 EXCEPT !.stats[stats_list[pick]] = @ + 1]
                          ELSE c3

\* The faces of the die that picks the improved ability: it is rolled only
\* by a level_up that reaches a multiple of 4.
pick_rolls(lvl) == IF earns_improvement(lvl + 1) THEN pick_all ELSE {1}

\* while self.level < 10 and self.xp >= XP_TABLE[self.level + 1]
crosses_threshold(c) == c.level < max_level /\ c.xp >= XP_TABLE[c.level + 1]

\* The loop of gain_xp on every character in cs at once: each one still
\* running and over its next threshold levels up (ok records leveled_up),
\* for every face in faces of the dice.
RECURSIVE gain_loop(_, _)
gain_loop(cs, faces) ==
    LET going == {c \in cs : c.err = "none" /\ crosses_threshold(c)}
        stepped == UNION {{[level_up(c, d10, pick) EXCEPT !.ok = TRUE] :
                              d10 \in d10_rolls \cap faces,
                              pick \in pick_rolls(c.level) \cap faces} :
                          c \in going}
    IN  IF going = {}
        THEN cs
        ELSE gain_loop((cs \ going) \cup stepped, faces)

\* The characters gain_xp(amount) can leave behind, the dice showing faces.
gain_xp(c, amount, faces) ==
    gain_loop({[c EXCEPT !.xp = c.xp + amount, !.ok = FALSE]}, faces)

LevelUp(d10, pick) ==
    /\ d10 \in d10_rolls
    /\ pick \in pick_rolls(level)
    /\ LET c == level_up(Self, d10, pick)
       IN  /\ Becomes(c)
           /\ last' = Call("level_up", "player", "player", "", 0, 0,
                           c.err = "none", c.err)
    /\ UNCHANGED <<armor_class, weapon, race, base_hp, known_spells, combatVars>>

GainXp(amount, faces) ==
    /\ \E c \in gain_xp(Self, amount, faces) :
         /\ Becomes(c)
         /\ last' = Call("gain_xp", "player", "player", "", amount, 0, c.ok, c.err)
    /\ UNCHANGED <<armor_class, weapon, race, base_hp, known_spells, combatVars>>

(***************************************************************************)
(* Construction.                                                           *)
(***************************************************************************)
MaxKnown == 2       \* spells taught per run

main_base_hp == 10

\* Character(name, race, base): empty stats, 0 hp, level 1, the level-1 slots,
\* armor class 10 and, no weapon being given, the Club.
NewCharacter(base) ==
    /\ race = "Human"
    /\ base_hp = base
    /\ level = 1
    /\ xp = 0
    /\ known_spells = <<>>
    /\ max_spell_slots = SPELL_SLOTS_BY_LEVEL[1]
    /\ spell_slots = SPELL_SLOTS_BY_LEVEL[1]
    /\ slots_aliased = FALSE

\* Combat(player, enemy)
NewCombat ==
    /\ round = 0
    /\ initiative_order = <<>>
    /\ returned = <<>>

\* Nothing was watched or counted yet.
NothingSeen ==
    /\ die = 0
    /\ die_enemy = 0
    /\ dealt = [e \in Entities |-> 0]
    /\ cast_count = [n \in DOMAIN SPELL_SLOTS_BY_LEVEL[1] |-> 0]

\* A new Character facing the goblin start_combat builds.
FacingGoblin ==
    /\ stats = [e \in Entities |-> IF e = "player" THEN NoStats ELSE goblin_stats]
    /\ hp = [e \in Entities |-> IF e = "player" THEN 0 ELSE goblin_hp]
    /\ max_hp = [e \in Entities |-> IF e = "player" THEN 0 ELSE goblin_hp]
    /\ armor_class = [e \in Entities |-> default_armor_class]
    /\ weapon = [e \in Entities |-> IF e = "player" THEN "Club" ELSE "Shortsword"]
    /\ NewCombat
    /\ last = NoCall
    /\ NothingSeen
    /\ NoEncounter
    /\ NoNarrator
    /\ steps = 0

\* The run is counted: at most MaxSteps calls.
Counted == steps < MaxSteps /\ steps' = steps + 1

Uncounted == UNCHANGED steps

\* The two extreme faces of a die.
extremes(dice_type) == {1, dice_type}

BothEnds == extremes(Len(stats_list)) \cup extremes(10) \cup extremes(20)

\* Every die showing 1.
Ones == {1}

Roll == \E rolled \in StatBlocks : RollStats(rolled) /\ Unwatched

\* roll_stats as create_character calls it: once, on the new Character.
FirstRoll == stats["player"] = NoStats /\ Roll

Learn(pool) ==
    \E spell \in pool :
        Len(known_spells) < MaxKnown /\ AddSpell(spell) /\ Unwatched

Ask(pool) == \E spell \in pool : CanCastSpell(spell) /\ Unwatched

Cast(pool, targets) ==
    \E spell \in pool, target \in targets : CastSpell(spell, target) /\ Unwatched

Recover == Rest /\ Unwatched

Advance(faces) == \E d10, pick \in faces : LevelUp(d10, pick) /\ Unwatched

Award(amounts, faces) == \E amount \in amounts : GainXp(amount, faces) /\ Unwatched

\* xp is capped: at most MaxXp is gained over the run.
Capped == xp' <= MaxXp

\* Every face of every die.
AnyFace == 1..20

Strike(attackers, defenders, faces) ==
    \E attacker \in attackers, defender \in defenders, d20 \in faces,
       damage \in faces \cup {NotRolled} :
        Attack(attacker, defender, d20, damage) /\ Unwatched

\* An attack whose caller watches the d20 and totals the damage.
WatchedStrike(attackers, defenders) ==
    \E attacker \in attackers, defender \in defenders,
       d20 \in AnyFace, damage \in d6_rolls \cup {NotRolled} :
        Attack(attacker, defender, d20, damage) /\ Watched(d20)


(***************************************************************************)
(* Spec: the whole life of a Character, every method in any order, for at  *)
(* most MaxSteps calls, each die showing one of its two extreme faces.     *)
(***************************************************************************)
Init == FacingGoblin /\ \E base \in 1..MaxBaseHp : NewCharacter(base)

Next ==
    \/ Counted /\ Outside /\ Silent /\ Roll
    \/ Counted /\ Outside /\ Silent /\ Learn(SpellPool)
    \/ Counted /\ Outside /\ Silent /\ Cast(SpellPool, Entities)
    \/ Counted /\ Outside /\ Silent /\ Recover
    \/ Counted /\ Outside /\ Silent /\ Advance(BothEnds)
    \/ Counted /\ Outside /\ Silent /\ Award(XpAmounts, BothEnds)
    \/ Counted /\ Outside /\ Silent /\ Strike(Entities, Entities, BothEnds)

Spec == Init /\ [][Next]_vars

(***************************************************************************)
(* SpecCast: the character main.py creates (base_hp 10) learns spells and  *)
(* casts them at the goblin, resting at will; no bound on the calls.       *)
(***************************************************************************)
InitCast == FacingGoblin /\ NewCharacter(main_base_hp)

NextCast ==
    \/ Uncounted /\ Outside /\ Silent /\ FirstRoll
    \/ Uncounted /\ Outside /\ Silent /\ Learn(LevelPool)
    \/ Uncounted /\ Outside /\ Silent /\ Ask(LevelPool)
    \/ Uncounted /\ Outside /\ Silent /\ Cast(LevelPool, {"enemy"})
    \/ Uncounted /\ Outside /\ Silent /\ Recover
    \/ Uncounted /\ Outside /\ Silent /\ Award(CastAwards, Ones) /\ Capped

SpecCast == InitCast /\ [][NextCast]_vars

(***************************************************************************)
(* SpecAttack: a Character whose stats were assigned, holding the default  *)
(* Club, attacks an Enemy built with any hp in 0..MaxEntityHp and one of   *)
(* the armor classes; the caller watches every face of the d20 and of the  *)
(* damage die and totals the damage returned.                              *)
(***************************************************************************)
\* Enemy(name, stats, hp, armor_class, weapon) against a new Character whose
\* stats and weapon were then assigned.
Duel(attacker_stats, attacker_weapon, defender_hp, defender_ac) ==
    /\ NewCharacter(main_base_hp)
    /\ stats = [e \in Entities |-> IF e = "player" THEN attacker_stats ELSE AllStats(10)]
    /\ hp = [e \in Entities |-> IF e = "player" THEN 0 ELSE defender_hp]
    /\ max_hp = [e \in Entities |-> IF e = "player" THEN 0 ELSE defender_hp]
    /\ armor_class = [e \in Entities |->
                        IF e = "player" THEN default_armor_class ELSE defender_ac]
    /\ weapon = [e \in Entities |-> IF e = "player" THEN attacker_weapon ELSE "Club"]
    /\ NewCombat
    /\ last = NoCall
    /\ NothingSeen
    /\ NoEncounter
    /\ NoNarrator
    /\ steps = 0

InitAttack ==
    \E s \in StatBlocks \cup {NoStats}, h \in 0..MaxEntityHp, ac \in ArmorClasses :
        Duel(s, "Club", h, ac)

NextAttack ==
    \/ Uncounted /\ Outside /\ Silent /\ WatchedStrike({"player"}, {"enemy"})

SpecAttack == InitAttack /\ [][NextAttack]_vars

(***************************************************************************)
(* SpecWeapons: the same duel with every weapon of the registry, or none,  *)
(* in the attacker's hand.                                                 *)
(***************************************************************************)
InitWeapons ==
    \E s \in StatBlocks, w \in WeaponChoices, h \in 0..MaxEntityHp,
       ac \in ArmorClasses :
        Duel(s, w, h, ac)

NextWeapons ==
    \/ Uncounted /\ Outside /\ Silent /\ Strike({"player"}, {"enemy"}, AnyFace)

SpecWeapons == InitWeapons /\ [][NextWeapons]_vars

(***************************************************************************)
(* SpecSlots: the same character, its caller counting per spell level the  *)
(* casts that returned since the slots were last refilled.                 *)
(***************************************************************************)
\* The count after the call just made: a rest or a level-up that returned
\* starts it again, a cast_spell that returned adds one at its spell's level.
Tallied ==
    /\ cast_count' =
         IF last'.err = "none" /\ (last'.op = "rest" \/ level' # level)
         THEN [n \in DOMAIN cast_count |-> 0]
         ELSE IF /\ last'.op = "cast_spell"
                 /\ last'.err = "none"
                 /\ Spell(last'.spell).level \in DOMAIN cast_count
              THEN [cast_count EXCEPT ![Spell(last'.spell).level] = @ + 1]
              ELSE cast_count
    /\ UNCHANGED <<die, die_enemy, dealt>>

TalliedCast(pool, targets) ==
    \E spell \in pool, target \in targets : CastSpell(spell, target) /\ Tallied

TalliedRest == Rest /\ Tallied

TalliedAward(amounts, faces) ==
    \E amount \in amounts : GainXp(amount, faces) /\ Tallied

NextSlots ==
    \/ Uncounted /\ Outside /\ Silent /\ FirstRoll
    \/ Uncounted /\ Outside /\ Silent /\ Learn(SpellPool)
    \/ Uncounted /\ Outside /\ Silent /\ TalliedCast(SpellPool, {"enemy"})
    \/ Uncounted /\ Outside /\ Silent /\ TalliedRest
    \/ Uncounted /\ Outside /\ Silent /\ TalliedAward(CastAwards, Ones) /\ Capped

SpecSlots == InitCast /\ [][NextSlots]_vars

(***************************************************************************)
(* SpecSpells: a caster of any INT score who knows one spell, of the       *)
(* registry or of the tests, casts it at an enemy, through cast_spell or   *)
(* on the Spell itself, resting at will.                                   *)
(***************************************************************************)
IntScores == 1..MaxScore

\* The hit points the targets start with.
TargetHps == {0, goblin_hp, 10, 30}

InitSpells ==
    \E int \in IntScores, spell \in SpellNames, h \in TargetHps :
        /\ race = "Human"
        /\ base_hp = main_base_hp
        /\ level = 1
        /\ xp = 0
        /\ max_spell_slots = SPELL_SLOTS_BY_LEVEL[1]
        /\ spell_slots = SPELL_SLOTS_BY_LEVEL[1]
        /\ slots_aliased = FALSE
        /\ stats = [e \in Entities |->
                      IF e = "player" THEN MixedStats(10, 10, int) ELSE AllStats(10)]
        /\ hp = [e \in Entities |-> IF e = "player" THEN 0 ELSE h]
        /\ max_hp = [e \in Entities |-> IF e = "player" THEN 0 ELSE h]
        /\ armor_class = [e \in Entities |-> default_armor_class]
        /\ weapon = [e \in Entities |-> "Club"]
        /\ known_spells = <<spell>>
        /\ NewCombat
        /\ last = NoCall
        /\ NothingSeen
        /\ NoEncounter
        /\ NoNarrator
        /\ steps = 0

NextSpells ==
    \/ Uncounted /\ Outside /\ Silent /\ Cast({known_spells[1]}, {"enemy"})
    \/ Uncounted /\ Outside /\ Silent /\ SpellCast(known_spells[1], "player", "enemy") /\ Unwatched
    \/ Uncounted /\ Outside /\ Silent /\ Recover

SpecSpells == InitSpells /\ [][NextSpells]_vars

(***************************************************************************)
(* SpecXp: the character create_character returns (base_hp 10, stats       *)
(* rolled) gains experience and levels up, for at most MaxSteps calls; the *)
(* caller watches the hit die of every direct level_up.                    *)
(***************************************************************************)
\* character = Character(name, race, 10); character.roll_stats()
Created(rolled) ==
    /\ NewCharacter(main_base_hp)
    /\ stats = [e \in Entities |-> IF e = "player" THEN rolled ELSE goblin_stats]
    /\ hp = [e \in Entities |->
               IF e = "player" THEN main_base_hp + modifier(rolled["CON"])
               ELSE goblin_hp]
    /\ max_hp = hp
    /\ armor_class = [e \in Entities |-> default_armor_class]
    /\ weapon = [e \in Entities |-> IF e = "player" THEN "Club" ELSE "Shortsword"]
    /\ NewCombat
    /\ last = Call("roll_stats", "player", "player", "", 0, 0, TRUE, "none")
    /\ NothingSeen
    /\ NoEncounter
    /\ NoNarrator
    /\ steps = 0

\* A level_up whose caller watches the hit die.
WatchedAdvance(hit_faces, pick_faces) ==
    \E d10 \in hit_faces, pick \in pick_faces :
        /\ LevelUp(d10, pick)
        /\ die' = d10
        /\ UNCHANGED <<die_enemy, dealt, cast_count>>

InitXp == \E rolled \in StatBlocks : Created(rolled)

NextXp ==
    \/ Counted /\ Outside /\ Silent /\ Award(XpAmounts, BothEnds)
    \/ Counted /\ Outside /\ Silent /\ WatchedAdvance(AnyFace, AnyFace)
    \/ Counted /\ Outside /\ Silent /\ Recover

SpecXp == InitXp /\ [][NextXp]_vars

(***************************************************************************)
(* Combat.roll_initiative, and SpecInitiative: a character and an enemy    *)
(* with the DEX scores of the tests and of the goblin roll initiative,     *)
(* every pair of d20 faces, the caller watching both dice.                 *)
(***************************************************************************)
\* The comparison with the tie going to the enemy.
goes_first_strict(player_init, enemy_init) == player_init > enemy_init

\* if player_init >= enemy_init
goes_first(player_init, enemy_init) == player_init >= enemy_init

\* roll_initiative with the player's d20 showing d_player and the enemy's
\* showing d_enemy; get_modifier raises KeyError for a missing DEX before
\* anything is assigned.
roll_initiative(player_stats, enemy_stats, d_player, d_enemy) ==
    IF ~has_stat(player_stats, "DEX") \/ ~has_stat(enemy_stats, "DEX")
    THEN [order |-> <<>>, err |-> "KeyError"]
    ELSE LET player_init == d_player + modifier(player_stats["DEX"])
             enemy_init == d_enemy + modifier(enemy_stats["DEX"])
         IN  [order |-> IF goes_first(player_init, enemy_init)
                        THEN <<"player", "enemy">>
                        ELSE <<"enemy", "player">>,
              err |-> "none"]

RollInitiative(d_player, d_enemy) ==
    /\ d_player \in d20_rolls
    /\ d_enemy \in d20_rolls
    /\ LET o == roll_initiative(stats["player"], stats["enemy"], d_player, d_enemy)
       IN  /\ initiative_order' = IF o.err = "none" THEN o.order ELSE initiative_order
           /\ returned' = IF o.err = "none" THEN o.order ELSE returned
           /\ last' = Call("roll_initiative", "player", "enemy", "", 0, 0,
                           o.err = "none", o.err)
    /\ UNCHANGED <<entityVars, hp, progressVars, spellVars, round>>

WatchedInitiative(faces) ==
    \E d_player, d_enemy \in faces :
        /\ RollInitiative(d_player, d_enemy)
        /\ die' = d_player
        /\ die_enemy' = d_enemy
        /\ UNCHANGED <<dealt, cast_count>>

DexStats(dex) == [AllStats(10) EXCEPT !["DEX"] = dex]

DexScores == {8, 20}

InitInitiative ==
    \E player_stats \in {DexStats(d) : d \in DexScores} \cup {NoStats},
       enemy_stats \in {DexStats(d) : d \in DexScores} \cup {goblin_stats} :
        /\ NewCharacter(main_base_hp)
        /\ stats = [e \in Entities |->
                      IF e = "player" THEN player_stats ELSE enemy_stats]
        /\ hp = [e \in Entities |-> IF e = "player" THEN main_base_hp ELSE goblin_hp]
        /\ max_hp = hp
        /\ armor_class = [e \in Entities |-> default_armor_class]
        /\ weapon = [e \in Entities |-> "Club"]
        /\ NewCombat
        /\ last = NoCall
        /\ NothingSeen
        /\ NoEncounter
        /\ NoNarrator
        /\ steps = 0

NextInitiative ==
    \/ Uncounted /\ Outside /\ Silent /\ WatchedInitiative(AnyFace)

SpecInitiative == InitInitiative /\ [][NextInitiative]_vars

(***************************************************************************)
(* SpecLevel: the created character levels up by direct level_up calls     *)
(* while level < MaxLevel, every face of the hit die, the improvement      *)
(* going to STR or to CON (the score the next hit-point increase reads).   *)
(* SpecImprove: the same calls, the hit die showing 1 and every face of    *)
(* the die that picks the improved ability.                                *)
(***************************************************************************)
StrOrCon == {1, 3}

NextLevel ==
    \/ Uncounted /\ Outside /\ Silent /\ level < MaxLevel /\ WatchedAdvance(AnyFace, StrOrCon)

SpecLevel == InitXp /\ [][NextLevel]_vars

NextImprove ==
    \/ Uncounted /\ Outside /\ Silent /\ level < MaxLevel /\ WatchedAdvance(Ones, AnyFace)

SpecImprove == InitXp /\ [][NextImprove]_vars

(***************************************************************************)
(* SpecRefill: the created character learns first- and second-level        *)
(* spells, spends slots on the goblin and levels up by direct level_up     *)
(* calls while level < MaxLevel, every die showing 1.                      *)
(***************************************************************************)
RefillPool == {"MagicMissile", "ScorchingRay"}

NextRefill ==
    \/ Uncounted /\ Outside /\ Silent /\ Learn(RefillPool)
    \/ Uncounted /\ Outside /\ Silent /\ Cast(RefillPool, {"enemy"})
    \/ Uncounted /\ Outside /\ Silent /\ level < MaxLevel /\ WatchedAdvance(Ones, Ones)

SpecRefill == InitXp /\ [][NextRefill]_vars

(***************************************************************************)
(* SpecRest: the created character learns spells, casts them at the goblin *)
(* or at itself, and rests.                                                *)
(***************************************************************************)
NextRest ==
    \/ Uncounted /\ Outside /\ Silent /\ Learn(RefillPool)
    \/ Uncounted /\ Outside /\ Silent /\ Cast(RefillPool, Entities)
    \/ Uncounted /\ Outside /\ Silent /\ Recover

SpecRest == InitXp /\ [][NextRest]_vars

(***************************************************************************)
(* Entity.get_modifier, and SpecModifier: an entity whose six scores are   *)
(* all s, s in the scores explored, or an unrolled character, is asked for *)
(* each of its modifiers.                                                  *)
(***************************************************************************)
\* get_modifier(stats_list[i]) on entity who: KeyError when the stat is not
\* in its stats.
GetModifier(who, i) ==
    /\ i \in 1..Len(stats_list)
    /\ last' = IF has_stat(stats[who], stats_list[i])
               THEN Call("get_modifier", who, who, "", i,
                         modifier(stats[who][stats_list[i]]), TRUE, "none")
               ELSE Call("get_modifier", who, who, "", i, 0, FALSE, "KeyError")
    /\ UNCHANGED <<hp, entityVars, progressVars, spellVars, combatVars>>

InitModifier ==
    \E scores \in {AllStats(s) : s \in IntScores} \cup {NoStats} :
        Duel(scores, "Club", goblin_hp, default_armor_class)

NextModifier ==
    \/ Uncounted /\ Outside /\ Silent /\ Unwatched
          /\ \E who \in Entities, i \in 1..Len(stats_list) : GetModifier(who, i)

SpecModifier == InitModifier /\ [][NextModifier]_vars

(***************************************************************************)
(* SpecRoll: a new character rolls its stats, and rolls them again; every  *)
(* total of the 3d6 for CON, and every total for the five other abilities  *)
(* (one total shared by the five).                                         *)
(***************************************************************************)
RolledBlock(con, other) == [a \in Abilities |-> IF a = "CON" THEN con ELSE other]

NextRoll ==
    \/ Uncounted /\ Outside /\ Silent /\ Unwatched
          /\ \E con, other \in stat_rolls : RollStats(RolledBlock(con, other))

SpecRoll == Init /\ [][NextRoll]_vars

(***************************************************************************)
(* SpecRace: a character of each race, and of a race the registry does not *)
(* know, with rolled stats, with some abilities only or with none, applies *)
(* its racial bonuses, up to MaxSteps times.                               *)
(* SpecRaceTen: the same calls from all-10 stats, spells being learned in  *)
(* between as create_character does.                                       *)
(***************************************************************************)
RaceNames == DOMAIN RACES \cup {"Gnome"}

PartialStats == [a \in {"STR", "INT"} |-> 10]

\* Character(name, r, 10) whose stats are s and whose hit points are h.
OfRace(r, s, h) ==
    /\ race = r
    /\ base_hp = main_base_hp
    /\ level = 1
    /\ xp = 0
    /\ known_spells = <<>>
    /\ max_spell_slots = SPELL_SLOTS_BY_LEVEL[1]
    /\ spell_slots = SPELL_SLOTS_BY_LEVEL[1]
    /\ slots_aliased = FALSE
    /\ stats = [e \in Entities |-> IF e = "player" THEN s ELSE goblin_stats]
    /\ hp = [e \in Entities |-> IF e = "player" THEN h ELSE goblin_hp]
    /\ max_hp = hp
    /\ armor_class = [e \in Entities |-> default_armor_class]
    /\ weapon = [e \in Entities |-> IF e = "player" THEN "Club" ELSE "Shortsword"]
    /\ NewCombat
    /\ last = NoCall
    /\ NothingSeen
    /\ NoEncounter
    /\ NoNarrator
    /\ steps = 0

InitRace ==
    \E r \in RaceNames, s \in StatBlocks \cup {PartialStats, NoStats} :
        OfRace(r, s, IF has_stat(s, "CON") THEN main_base_hp + modifier(s["CON"]) ELSE 0)

NextRace ==
    \/ Counted /\ Outside /\ Silent /\ Unwatched /\ ApplyRacialBonuses

SpecRace == InitRace /\ [][NextRace]_vars

InitRaceTen == \E r \in RaceNames : OfRace(r, AllStats(10), main_base_hp)

NextRaceTen ==
    \/ Counted /\ Outside /\ Silent /\ Unwatched /\ ApplyRacialBonuses
    \/ Uncounted /\ Outside /\ Silent /\ Learn(RefillPool)

SpecRaceTen == InitRaceTen /\ [][NextRaceTen]_vars

(***************************************************************************)
(* main.start_combat and main's menu loop.  A step is one dice-rolling     *)
(* call of the encounter together with the checks that follow it up to the *)
(* next input or roll.                                                     *)
(***************************************************************************)
\* [spell for spell in self.known_spells if self.can_cast_spell(spell)]
get_available_spells(known, slots) ==
    SelectSeq(known, LAMBDA spell : can_cast_spell(known, slots, spell))

GetAvailableSpells ==
    /\ returned' = get_available_spells(known_spells, spell_slots)
    /\ last' = Call("get_available_spells", "player", "player", "", 0, 0, TRUE, "none")
    /\ UNCHANGED <<hp, entityVars, progressVars, spellVars, round, initiative_order>>

\* start_combat returns result to main: victory = start_combat(player); a
\* defeat (not victory and not player.is_alive()) leaves the menu loop.
Return(result) ==
    /\ victory' = result
    /\ pc' = IF result = "False" /\ ~(hp'["player"] > 0) THEN "quit" ELSE "main"

\* while player.is_alive() and goblin.is_alive(): the next round starts, or
\* the loop is left and start_combat returns by its last three lines.
LoopTest ==
    IF hp'["player"] > 0 /\ hp'["enemy"] > 0
    THEN pc' = "player_turn" /\ victory' = victory
    ELSE Return(IF ~(hp'["player"] > 0) THEN "False" ELSE "True")

\* An exception nobody catches ends the program.
Raised == pc' = "raised" /\ victory' = victory

\* main's choice 1 up to the first prompt of start_combat: a fresh goblin,
\* Combat(player, goblin), combat.roll_initiative().
StartCombat(d_player, d_enemy) ==
    /\ pc = "main"
    /\ d_player \in d20_rolls
    /\ d_enemy \in d20_rolls
    /\ stats' = [stats EXCEPT !["enemy"] = goblin_stats]
    /\ hp' = [hp EXCEPT !["enemy"] = goblin_hp]
    /\ max_hp' = [max_hp EXCEPT !["enemy"] = goblin_hp]
    /\ armor_class' = [armor_class EXCEPT !["enemy"] = default_armor_class]
    /\ weapon' = [weapon EXCEPT !["enemy"] = "Shortsword"]
    /\ round' = 0
    /\ acted' = <<>>
    /\ LET o == roll_initiative(stats["player"], goblin_stats, d_player, d_enemy)
       IN  /\ initiative_order' = o.order
           /\ returned' = IF o.err = "none" THEN o.order ELSE returned
           /\ last' = Call("roll_initiative", "player", "enemy", "", 0, 0,
                           o.err = "none", o.err)
           /\ IF o.err = "none" THEN LoopTest ELSE Raised
    /\ UNCHANGED <<progressVars, spellVars>>

\* The goblin's turn whether it lives or not.
AfterPlayerUnchecked ==
    IF last'.err # "none"
    THEN Raised
    ELSE pc' = "enemy_turn" /\ victory' = victory

\* After the player's action: if not goblin.is_alive(): return True;
\* otherwise the goblin's turn.
AfterPlayer ==
    IF last'.err # "none"
    THEN Raised
    ELSE IF ~(hp'["enemy"] > 0)
         THEN Return("True")
         ELSE pc' = "enemy_turn" /\ victory' = victory

\* Choice 1 (or choice 2 without an available spell, or with spell 0):
\* combat.attack(player, goblin).
PlayerAttacks(d20, damage) ==
    /\ pc = "player_turn"
    /\ Attack("player", "enemy", d20, damage)
    /\ acted' = Append(acted, "player")
    /\ AfterPlayer

\* Choice 2 and one of the available spells: player.cast_spell(spell, goblin).
PlayerCasts(spell_idx) ==
    /\ pc = "player_turn"
    /\ LET available_spells == get_available_spells(known_spells, spell_slots)
       IN  /\ spell_idx \in 1..Len(available_spells)
           /\ CastSpell(available_spells[spell_idx], "enemy")
    /\ acted' = Append(acted, "player")
    /\ AfterPlayer

\* Choice 3: return False.
RunAway ==
    /\ pc = "player_turn"
    /\ UNCHANGED <<hp, entityVars, progressVars, spellVars, combatVars, last, acted>>
    /\ Return("False")

\* The goblin's turn: combat.attack(goblin, player), then
\* if not player.is_alive(): return False.
EnemyAttacks(d20, damage) ==
    /\ pc = "enemy_turn"
    /\ hp["enemy"] > 0
    /\ Attack("enemy", "player", d20, damage)
    /\ acted' = Append(acted, "enemy")
    /\ IF last'.err # "none"
       THEN Raised
       ELSE IF ~(hp'["player"] > 0)
            THEN Return("False")
            ELSE pc' = "round_end" /\ victory' = victory

\* combat.round += 1 and the loop test; counted says whether the round is
\* still counted (rounds past the bound are not, where the run must go on).
EndRound(counted) ==
    /\ pc = "round_end"
    /\ round' = IF counted THEN round + 1 ELSE round
    /\ acted' = <<>>
    /\ UNCHANGED <<hp, entityVars, progressVars, spellVars, initiative_order,
                   returned, last>>
    /\ LoopTest

\* main's choice 3.
MenuRest == pc = "main" /\ Rest /\ Outside

\* main's choice 4.
Quit ==
    /\ pc = "main"
    /\ pc' = "quit"
    /\ UNCHANGED <<hp, entityVars, progressVars, spellVars, combatVars, last,
                   victory, acted>>

(***************************************************************************)
(* SpecEncounter: the character create_character made, with or without     *)
(* spells, plays main's menu: fights goblins (every face of every die),    *)
(* rests, quits.                                                           *)
(***************************************************************************)
\* A fighter (all 10, no spell) and a frail caster (STR 18, CON 3, INT 16,
\* three spells): the stats rolled and the spells chosen in create_character.
Parties ==
    { [rolled |-> AllStats(10), chosen_spells |-> <<>>],
      [rolled |-> MixedStats(18, 3, 16),
       chosen_spells |-> <<"FireBolt", "MagicMissile", "CureWounds">>] }

Adventurer(rolled, chosen_spells) ==
    /\ race = "Human"
    /\ base_hp = main_base_hp
    /\ level = 1
    /\ xp = 0
    /\ known_spells = chosen_spells
    /\ max_spell_slots = SPELL_SLOTS_BY_LEVEL[1]
    /\ spell_slots = SPELL_SLOTS_BY_LEVEL[1]
    /\ slots_aliased = FALSE
    /\ stats = [e \in Entities |-> IF e = "player" THEN rolled ELSE goblin_stats]
    /\ hp = [e \in Entities |->
               IF e = "player" THEN main_base_hp + modifier(rolled["CON"])
               ELSE goblin_hp]
    /\ max_hp = hp
    /\ armor_class = [e \in Entities |-> default_armor_class]
    /\ weapon = [e \in Entities |-> IF e = "player" THEN "Club" ELSE "Shortsword"]
    /\ NewCombat
    /\ last = Call("roll_stats", "player", "player", "", 0, 0, TRUE, "none")
    /\ NothingSeen
    /\ NoEncounter
    /\ NoNarrator
    /\ steps = 0

InitEncounter == \E p \in Parties : Adventurer(p.rolled, p.chosen_spells)

InEncounter == Uncounted /\ Unwatched /\ Silent

NextEncounter ==
    \/ InEncounter /\ \E d_player, d_enemy \in BothEnds : StartCombat(d_player, d_enemy)
    \/ InEncounter /\ \E d20 \in AnyFace, damage \in d6_rolls \cup {NotRolled} :
                         PlayerAttacks(d20, damage)
    \/ InEncounter /\ \E spell_idx \in 1..MaxKnown + 1 : PlayerCasts(spell_idx)
    \/ InEncounter /\ RunAway
    \/ InEncounter /\ \E d20 \in AnyFace, damage \in d6_rolls \cup {NotRolled} :
                         EnemyAttacks(d20, damage)
    \/ InEncounter /\ round < MaxRound /\ EndRound(TRUE)
    \/ InEncounter /\ MenuRest
    \/ InEncounter /\ Quit

SpecEncounter == InitEncounter /\ [][NextEncounter]_vars

(***************************************************************************)
(* start_combat with a player who always chooses the weapon attack         *)
(***************************************************************************)
\* A character whose STR is any score roll_stats can roll, the other scores
\* 10, armor class 10, no spells.
InitFair == \E str \in stat_rolls : Adventurer(MixedStats(str, 10, 10), <<>>)

\* One call of start_combat in which the player answers "1" at every prompt.
\* Rounds past MaxRound are not counted, so that an encounter may go on for
\* ever.
NextFair ==
    \/ InEncounter /\ victory = "none"
                   /\ \E d_player, d_enemy \in BothEnds : StartCombat(d_player, d_enemy)
    \/ InEncounter /\ \E d20 \in AnyFace, damage \in d6_rolls \cup {NotRolled} :
                         PlayerAttacks(d20, damage)
    \/ InEncounter /\ \E d20 \in AnyFace, damage \in d6_rolls \cup {NotRolled} :
                         EnemyAttacks(d20, damage)
    \/ InEncounter /\ EndRound(round < MaxRound)

\* Fair dice.  Every behaviour in which each face of each die comes up again
\* and again satisfies this weaker condition, which is all the loop needs:
\* the player's d20 shows its top face again and again, the goblin's attack
\* and the end of a round are not delayed for ever.
FairDice ==
    /\ SF_vars(InEncounter /\ \E damage \in d6_rolls \cup {NotRolled} :
                                 PlayerAttacks(20, damage))
    /\ WF_vars(InEncounter /\ \E d20 \in AnyFace, damage \in d6_rolls \cup {NotRolled} :
                                 EnemyAttacks(d20, damage))
    /\ WF_vars(InEncounter /\ EndRound(round < MaxRound))

SpecFair == InitFair /\ [][NextFair]_vars /\ FairDice

(***************************************************************************)
(* SpecKnown: the created character is taught spells, those it knows       *)
(* again too, casts them at the goblin and asks which are available.       *)
(***************************************************************************)
NextKnown ==
    \/ Uncounted /\ Outside /\ Silent /\ Unwatched
          /\ \E spell \in LevelPool :
                /\ knows(known_spells, spell) \/ Len(known_spells) < MaxKnown
                /\ AddSpell(spell)
    \/ Uncounted /\ Outside /\ Silent /\ Cast(LevelPool, {"enemy"})
    \/ Uncounted /\ Outside /\ Silent /\ Unwatched /\ GetAvailableSpells

SpecKnown == InitXp /\ [][NextKnown]_vars

(***************************************************************************)
(* dungeon_master.py.  The names passed to narrate_* only fill the prompt; *)
(* what a call does depends on enabled, on the number of available         *)
(* actions, and on whether the service answers or fails.                   *)
(***************************************************************************)
NarrateOps ==
    {"narrate_combat_start", "narrate_attack", "narrate_spell_cast",
     "narrate_victory", "narrate_defeat", "narrate_action_choice"}

\* DungeonMaster(enabled=flag) with or without a configured OPENAI_API_KEY.
NewDungeonMaster(flag, key_configured) ==
    /\ enabled' = (flag /\ key_configured)
    /\ service' = "idle"
    /\ last' = Call("DungeonMaster", "player", "player", "", 0, 0, TRUE, "none")
    /\ UNCHANGED <<hp, entityVars, progressVars, spellVars, combatVars>>

\* One narrate_* call: n is the damage passed (narrate_attack,
\* narrate_spell_cast) or len(available_actions) (narrate_action_choice);
\* outcome is what the service does if it is asked.  ok says that a text,
\* not None, is returned.
narrate(op, is_enabled, n, outcome) ==
    IF ~is_enabled
    THEN [ok |-> FALSE, service |-> "idle", err |-> "none"]
    ELSE IF op = "narrate_action_choice" /\ n = 0
         THEN \* available_actions[-1], before the try
              [ok |-> FALSE, service |-> "idle", err |-> "IndexError"]
         ELSE IF outcome = "failed"
              THEN [ok |-> FALSE, service |-> "failed", err |-> "none"]
              ELSE [ok |-> TRUE, service |-> "answered", err |-> "none"]

Narrate(op, n, outcome) ==
    /\ op \in NarrateOps
    /\ outcome \in {"answered", "failed"}
    /\ LET o == narrate(op, enabled, n, outcome)
       IN  /\ service' = o.service
           /\ last' = Call(op, "player", "enemy", "", n, 0, o.ok, o.err)
    /\ UNCHANGED <<enabled, hp, entityVars, progressVars, spellVars, combatVars>>

NextNarration ==
    \/ Uncounted /\ Outside /\ Unwatched
          /\ \E flag, key_configured \in BOOLEAN : NewDungeonMaster(flag, key_configured)
    \/ Uncounted /\ Outside /\ Unwatched
          /\ \E op \in NarrateOps, n \in 0..MaxActions, outcome \in {"answered", "failed"} :
                Narrate(op, n, outcome)

SpecNarration == InitXp /\ [][NextNarration]_vars

(***************************************************************************)
(* Properties.                                                             *)
(***************************************************************************)
\* C1: hit points stay in range: every Entity built with hp >= 0, and the
\* Character once roll_stats has run, has 0 <= hp <= max_hp in every state
\* reached by attack, cast_spell, rest, level_up and gain_xp.
HpInRange ==
    \A e \in Entities :
        (e = "player" => stats[e] # NoStats)
            => (0 <= hp[e] /\ hp[e] <= max_hp[e])

\* C2: spell-slot bounds: in every state max_spell_slots is the
\* SPELL_SLOTS_BY_LEVEL entry of the current level and every spell level n
\* has 0 <= spell_slots[n] <= max_spell_slots[n].
SlotsFollowLevel ==
    /\ level \in DOMAIN SPELL_SLOTS_BY_LEVEL
          => max_spell_slots = SPELL_SLOTS_BY_LEVEL[level]
    /\ \A n \in DOMAIN spell_slots :
          0 <= spell_slots[n] /\ spell_slots[n] <= max_spell_slots[n]

\* C3: level range: in every state reached from a new Character by gain_xp,
\* level_up, rest and cast_spell, 1 <= level <= 10.
LevelInRange == 1 <= level /\ level <= 10

\* C4: an attack that returns hits (returns its damage, which is positive)
\* if and only if the d20 plus the attacker's STR modifier is at least the
\* defender's armor class, whatever face 1..20 the d20 shows.
HitIffThreshold ==
    (last.op = "attack" /\ last.err = "none")
        => (last.ret > 0
              <=> die + (stats[last.actor]["STR"] - 10) \div 2
                     >= armor_class[last.target])

\* The d20 shows 1 and the attack hits, the total being the armor class itself.
HitOnNaturalOne ==
    /\ last.op = "attack"
    /\ last.err = "none"
    /\ die = 1
    /\ die + (stats[last.actor]["STR"] - 10) \div 2 = armor_class[last.target]
    /\ last.ret > 0

\* C5: on a hit the damage returned lies in
\* [damage_dice_count, damage_dice_count * damage_die] of the weapon the
\* attacker holds, for every weapon of the registry.
DamageWithinWeaponRange ==
    (last.op = "attack" /\ last.ret > 0 /\ weapon[last.actor] \in DOMAIN WEAPONS)
        => LET w == WEAPONS[weapon[last.actor]]
           IN  /\ w.damage_dice_count <= last.ret
               /\ last.ret <= w.damage_dice_count * w.damage_die

\* C6: on a hit the defender's hp becomes max(0, hp before - damage returned),
\* and so after any sequence of attacks every defender's hp is
\* max(0, initial hp - sum of the damages returned).
HpIsInitialMinusDamage ==
    /\ [][(last'.op = "attack" /\ last'.ret > 0)
            => hp'[last'.target] =
                 IF hp[last'.target] - last'.ret > 0
                 THEN hp[last'.target] - last'.ret
                 ELSE 0]_vars
    /\ [](\A e \in Entities :
            hp[e] = IF max_hp[e] - dealt[e] > 0 THEN max_hp[e] - dealt[e] ELSE 0)

\* A second hit returns more than the hp the defender had left.
ClampAbsorbsPart ==
    /\ last.op = "attack"
    /\ last.ret > 0
    /\ dealt["enemy"] > last.ret
    /\ dealt["enemy"] - last.ret < max_hp["enemy"]
    /\ dealt["enemy"] > max_hp["enemy"]
    /\ hp["enemy"] = 0

\* C7: attack changes nothing but the defender's hp: the attacker, the
\* defender's max_hp, stats and armor_class, round and initiative_order stay;
\* on a miss it returns 0 and the defender's hp stays too, and it returns 0
\* only on a miss.
AttackFrame ==
    [][last'.op = "attack"
         => /\ UNCHANGED <<stats, max_hp, armor_class, weapon>>
            /\ UNCHANGED <<round, initiative_order>>
            /\ UNCHANGED <<base_hp, level, xp, known_spells, spell_slots,
                           max_spell_slots>>
            /\ \A e \in Entities \ {last'.target} : hp'[e] = hp[e]
            /\ (last'.err = "none")
                 => LET miss == die' + (stats[last'.actor]["STR"] - 10) \div 2
                                   < armor_class[last'.target]
                    IN  /\ miss => (last'.ret = 0 /\ hp' = hp)
                        /\ (last'.ret = 0) => miss]_vars

\* The d20 shows 20 and the attack misses a defender that still stands.
MissOnNaturalTwenty ==
    /\ last.op = "attack"
    /\ last.err = "none"
    /\ die = 20
    /\ last.ret = 0
    /\ hp[last.target] > 0
    /\ dealt[last.target] = 0

\* C8: an attacker whose weapon is None deals exactly 1 damage on every hit.
UnarmedDealsOne ==
    (last.op = "attack" /\ last.ret > 0 /\ weapon[last.actor] = "None")
        => last.ret = 1

\* C9: can_cast_spell is False for a spell that is not known; otherwise True
\* for a spell of level 0; otherwise True exactly when spell_slots holds more
\* than 0 slots of the spell's level, a level the table lacks counting as 0.
CanCastAnswer ==
    last.op = "can_cast_spell"
        => last.ok =
             IF \A i \in DOMAIN known_spells : known_spells[i] # last.spell
             THEN FALSE
             ELSE IF Spell(last.spell).level = 0
                  THEN TRUE
                  ELSE /\ Spell(last.spell).level \in DOMAIN spell_slots
                       /\ spell_slots[Spell(last.spell).level] > 0

\* A known spell of level 9 is asked about, and the answer is False.
KnownLevel9Refused ==
    /\ last.op = "can_cast_spell"
    /\ last.spell = "Level9"
    /\ \E i \in DOMAIN known_spells : known_spells[i] = "Level9"
    /\ ~last.ok

\* C10: a cast_spell that raises leaves the caster's spell_slots and the
\* target's hp as they were, and for an unknown spell or an empty slot the
\* error is the ValueError.
FailedCastChangesNothing ==
    [][(last'.op = "cast_spell" /\ last'.err # "none")
         => /\ spell_slots' = spell_slots
            /\ hp' = hp
            /\ (\/ \A i \in DOMAIN known_spells : known_spells[i] # last'.spell
                \/ /\ Spell(last'.spell).level > 0
                   /\ \/ Spell(last'.spell).level \notin DOMAIN spell_slots
                      \/ spell_slots[Spell(last'.spell).level] = 0)
                 => last'.err = "ValueError"]_vars

\* C11: a cast_spell that returns lowers spell_slots by exactly 1 at the
\* spell's level and leaves every other level's count as it was (a spell of
\* level 0 lowers none); no cast_spell changes max_spell_slots.
CastSpendsOneSlot ==
    [][last'.op = "cast_spell"
         => /\ max_spell_slots' = max_spell_slots
            /\ (last'.err = "none")
                 => \A n \in DOMAIN spell_slots :
                       spell_slots'[n] = IF n = Spell(last'.spell).level
                                         THEN spell_slots[n] - 1
                                         ELSE spell_slots[n]]_vars

\* A spell of level 2 was cast: one slot of level 2 is spent, none of level 1.
Level2SlotSpent ==
    /\ last.op = "cast_spell"
    /\ last.err = "none"
    /\ Spell(last.spell).level = 2
    /\ spell_slots[2] = max_spell_slots[2] - 1
    /\ spell_slots[1] = max_spell_slots[1]
    /\ max_spell_slots = SPELL_SLOTS_BY_LEVEL[level]

\* C12: with k slots of level n after the last refill (k is the capacity
\* max_spell_slots[n]), a cast of a known level-n spell raises the
\* "Cannot cast" error exactly when k casts of level n have returned since;
\* a cast that returns spends its slot even when it deals 0 damage; a rest
\* or a level-up that returns refills every level.
SlotsLastExactlyK ==
    [][/\ \A n \in DOMAIN spell_slots :
            (/\ last'.op = "cast_spell"
             /\ \E i \in DOMAIN known_spells : known_spells[i] = last'.spell
             /\ Spell(last'.spell).level = n)
                => /\ (last'.err = "ValueError")
                         <=> (cast_count[n] = max_spell_slots[n])
                   /\ (last'.err = "none")
                         => spell_slots'[n] = spell_slots[n] - 1
       /\ (last'.err = "none" /\ (last'.op = "rest" \/ level' > level))
            => spell_slots' = max_spell_slots']_vars

GainXpLevelsToThreshold ==
    [][(last'.op = "gain_xp" /\ last'.err = "none")
         => /\ xp' = xp + last'.arg
            /\ xp' >= xp
            /\ \/ level' = 10
               \/ /\ level' + 1 \in DOMAIN XP_TABLE
                  /\ xp' < XP_TABLE[level' + 1]
            /\ last'.ok <=> (level' > level)
            /\ (level = 1 /\ xp = 0 /\ last'.arg = 100) => level' = 1
            /\ (level = 1 /\ xp = 0 /\ last'.arg = 300) => level' = 2
            /\ (level = 1 /\ xp = 0 /\ last'.arg = 3000) => level' = 4]_vars

\* C16: every level_up raises max_hp by max(1, d10 + CON modifier), so by
\* at least 1 whatever the d10 and the CON score, and leaves hp = max_hp.
LevelUpHpGrowth ==
    [][last'.op = "level_up"
         => LET raw == die' + (stats["player"]["CON"] - 10) \div 2
                grown == IF raw < 1 THEN 1 ELSE raw
            IN  /\ max_hp'["player"] = max_hp["player"] + grown
                /\ max_hp'["player"] >= max_hp["player"] + 1
                /\ hp'["player"] = max_hp'["player"]]_vars

\* CON 3 and the d10 showing 1: the first level_up raised max_hp from 6 to 7.
FloorOfOneApplied ==
    /\ last.op = "level_up"
    /\ level = 2
    /\ die = 1
    /\ stats["player"]["CON"] = 3
    /\ max_hp["player"] = main_base_hp - 4 + 1
    /\ hp["player"] = max_hp["player"]

\* C18: a level_up to level 4 or 8 raises exactly one of the six ability
\* scores by 1 and leaves the other five; a level_up to any other level
\* changes no score; so after levelling 1 -> 4 from all-10 stats exactly one
\* score is 11 (the sum is 61).
AbilityScoreImprovement ==
    /\ [][last'.op = "level_up"
            => IF last'.err = "none" /\ (level' = 4 \/ level' = 8)
               THEN \E a \in DOMAIN stats["player"] :
                       /\ DOMAIN stats'["player"] = DOMAIN stats["player"]
                       /\ stats'["player"][a] = stats["player"][a] + 1
                       /\ \A b \in DOMAIN stats["player"] \ {a} :
                             stats'["player"][b] = stats["player"][b]
               ELSE stats' = stats]_vars
    /\ []((level = 4 /\ \A a \in DOMAIN stats["player"] :
                          stats["player"][a] \in {10, 11})
            => Cardinality({a \in DOMAIN stats["player"] :
                              stats["player"][a] = 11}) = 1)

\* Level 4 reached from all-10 stats: CHA is 11, the other five are 10.
CharismaImprovedAtFour ==
    /\ last.op = "level_up"
    /\ level = 4
    /\ stats["player"]["CHA"] = 11
    /\ \A a \in DOMAIN stats["player"] \ {"CHA"} : stats["player"][a] = 10

RestRestoresOnly ==
    /\ [][last'.op = "rest"
            => /\ spell_slots' = max_spell_slots
               /\ hp'["player"] = max_hp["player"]
               /\ hp'["enemy"] = hp["enemy"]
               /\ UNCHANGED <<level, xp, stats, max_hp, max_spell_slots,
                              known_spells, armor_class, weapon, base_hp,
                              combatVars>>]_vars
    /\ [][last'.op = "cast_spell" => max_spell_slots' = max_spell_slots]_vars

\* A rest after a spell hurt the goblin (which cost a slot): every slot is
\* back and the character is at full hit points.
RestedAfterCasting ==
    /\ last.op = "rest"
    /\ hp["enemy"] < max_hp["enemy"]
    /\ spell_slots = max_spell_slots
    /\ spell_slots = SPELL_SLOTS_BY_LEVEL[1]
    /\ hp["player"] = max_hp["player"]

\* C20: a roll_initiative that returns places the player first exactly when
\* the player's d20 + DEX modifier is >= the enemy's (a tie goes to the
\* player) and the enemy first otherwise; the order always holds the player
\* and the enemy once each, and the list returned is the one stored in
\* initiative_order.
InitiativeOrder ==
    /\ [][last'.op = "roll_initiative" /\ last'.err = "none"
            => LET player_init == die' + (stats["player"]["DEX"] - 10) \div 2
                   enemy_init == die_enemy' + (stats["enemy"]["DEX"] - 10) \div 2
               IN  /\ (initiative_order'[1] = "player") <=> (player_init >= enemy_init)
                   /\ (initiative_order'[1] = "enemy") <=> (player_init < enemy_init)
                   /\ returned' = initiative_order']_vars
    /\ [](last.op = "roll_initiative" /\ last.err = "none"
            => /\ Len(initiative_order) = 2
               /\ \A e \in Entities :
                     Cardinality({i \in 1..2 : initiative_order[i] = e}) = 1)

\* DEX 20 rolling 1 against the goblin's DEX 14 rolling 4: both totals are
\* 6 and the player goes first.
TieGoesToPlayer ==
    /\ last.op = "roll_initiative"
    /\ last.err = "none"
    /\ stats["player"]["DEX"] = 20
    /\ stats["enemy"] = goblin_stats
    /\ die = 1
    /\ die_enemy = 4
    /\ initiative_order = <<"player", "enemy">>
    /\ returned = initiative_order

\* C21: in every round of an encounter the entity that roll_initiative
\* placed first in initiative_order is the first to act.
TurnOrderFollowsInitiative ==
    [][acted = <<>> /\ acted' # <<>> => acted'[1] = initiative_order[1]]_vars

\* C22: get_modifier returns floor((score - 10) / 2), the quotient rounded
\* toward negative infinity: 8 -> -1, 3 -> -4, 9 -> -1, 10 -> 0, 20 -> 5.
ModifierIsFloor ==
    last.op = "get_modifier" /\ last.err = "none"
        => LET score == stats[last.actor][stats_list[last.arg]]
           IN  /\ 2 * last.ret <= score - 10
               /\ score - 10 <= 2 * last.ret + 1
               /\ score = 8 => last.ret = -1
               /\ score = 3 => last.ret = -4
               /\ score = 9 => last.ret = -1
               /\ score = 10 => last.ret = 0
               /\ score = 20 => last.ret = 5

\* The modifier of an odd score below 10: 3 gives -4, where truncation
\* would give -3.
ModifierOfThree ==
    /\ last.op = "get_modifier"
    /\ last.err = "none"
    /\ stats[last.actor][stats_list[last.arg]] = 3
    /\ last.ret = -4

\* C23: after roll_stats all six abilities have a value in 3..18, max_hp is
\* base_hp + the modifier of the CON just rolled, and hp = max_hp.
RollStatsAssignsAll ==
    last.op = "roll_stats"
        => /\ DOMAIN stats["player"] = {"STR", "DEX", "CON", "INT", "WIS", "CHA"}
           /\ \A a \in DOMAIN stats["player"] :
                 3 <= stats["player"][a] /\ stats["player"][a] <= 18
           /\ max_hp["player"] = base_hp + (stats["player"]["CON"] - 10) \div 2
           /\ hp["player"] = max_hp["player"]

\* CON 18 and the others 3: max_hp is base_hp + 4.
RolledEighteenCon ==
    /\ last.op = "roll_stats"
    /\ stats["player"]["CON"] = 18
    /\ stats["player"]["STR"] = 3
    /\ max_hp["player"] = base_hp + 4
    /\ hp["player"] = max_hp["player"]

\* C24: apply_racial_bonuses adds to each ability present in stats the
\* race's bonus for it, 0 when the race has none, and nothing at all for a
\* race the registry does not know; it adds and removes no ability and
\* leaves hp and max_hp alone.  From all-10: Human gives all 11, Elf DEX 12
\* and the rest 10, Orc STR 12, CON 11, INT 9.
RacialBonusesAdded ==
    [][last'.op = "apply_racial_bonuses"
         => /\ DOMAIN stats'["player"] = DOMAIN stats["player"]
            /\ \A a \in DOMAIN stats["player"] :
                  stats'["player"][a] - stats["player"][a] =
                     CASE race = "Human" -> 1
                       [] race = "Elf" /\ a = "DEX" -> 2
                       [] race = "Dwarf" /\ a = "CON" -> 2
                       [] race = "Halfling" /\ a = "DEX" -> 2
                       [] race = "Halfling" /\ a = "CHA" -> 1
                       [] race = "Orc" /\ a = "STR" -> 2
                       [] race = "Orc" /\ a = "CON" -> 1
                       [] race = "Orc" /\ a = "INT" -> -1
                       [] OTHER -> 0
            /\ race = "Gnome" => stats' = stats
            /\ stats["player"] = AllStats(10) /\ race = "Human"
                  => stats'["player"] = AllStats(11)
            /\ stats["player"] = AllStats(10) /\ race = "Elf"
                  => stats'["player"] = [AllStats(10) EXCEPT !["DEX"] = 12]
            /\ stats["player"] = AllStats(10) /\ race = "Orc"
                  => stats'["player"] = [AllStats(10) EXCEPT !["STR"] = 12,
                                                             !["CON"] = 11,
                                                             !["INT"] = 9]
            /\ hp' = hp
            /\ max_hp' = max_hp]_vars

\* A Dwarf's CON went from 10 to 12 in one call; max_hp is still the 10 it
\* was with CON 10.
DwarfKeepsMaxHp ==
    /\ last.op = "apply_racial_bonuses"
    /\ race = "Dwarf"
    /\ steps = 1
    /\ stats["player"] = [AllStats(10) EXCEPT !["CON"] = 12]
    /\ max_hp["player"] = main_base_hp
    /\ hp["player"] = main_base_hp

\* C25: apply_racial_bonuses is not guarded: after k calls on a character
\* of a known race that had all-10 stats, each ability is 10 + k times the
\* race's bonus (twice on a Human gives all 12).
BonusesApplyEveryCall ==
    /\ race \in DOMAIN RACES
          => \A a \in DOMAIN stats["player"] :
                stats["player"][a] =
                   10 + steps * (IF a \in DOMAIN RACES[race] THEN RACES[race][a] ELSE 0)
    /\ race = "Human" /\ steps = 2 => stats["player"] = AllStats(12)

\* Two calls on a Human: every ability is 12.
HumanTwiceIsTwelve ==
    /\ last.op = "apply_racial_bonuses"
    /\ race = "Human"
    /\ steps = 2
    /\ \A a \in DOMAIN stats["player"] : stats["player"][a] = 12

\* C26: known_spells never holds a spell twice; add_spell of a spell already
\* known changes nothing; add_spell of a new one keeps the spells known in
\* their order and puts the new one last, and no other call touches the
\* list; get_available_spells returns the known spells that can be cast, in
\* the order of known_spells.
KnownSpellsDistinct ==
    /\ [](\A i, j \in DOMAIN known_spells :
             i # j => known_spells[i] # known_spells[j])
    /\ [][IF last'.op = "add_spell"
          THEN IF \E i \in DOMAIN known_spells : known_spells[i] = last'.spell
               THEN UNCHANGED <<known_spells, spell_slots, max_spell_slots, hp, stats>>
               ELSE /\ Len(known_spells') = Len(known_spells) + 1
                    /\ SubSeq(known_spells', 1, Len(known_spells)) = known_spells
                    /\ known_spells'[Len(known_spells')] = last'.spell
          ELSE known_spells' = known_spells]_vars
    /\ [][last'.op = "get_available_spells"
            => LET castable(spell) ==
                      \/ Spell(spell).level = 0
                      \/ /\ Spell(spell).level \in DOMAIN spell_slots
                         /\ spell_slots[Spell(spell).level] > 0
                   place(spell) == CHOOSE i \in DOMAIN known_spells :
                                      known_spells[i] = spell
               IN  /\ {returned'[i] : i \in DOMAIN returned'} =
                         {known_spells[i] : i \in {k \in DOMAIN known_spells :
                                                      castable(known_spells[k])}}
                   /\ \A i, j \in DOMAIN returned' :
                         i < j => place(returned'[i]) < place(returned'[j])]_vars

\* add_spell was just called with the spell at the head of a list of two:
\* the spell was known already and the list was left as it was.
KnownSpellTaughtAgain ==
    /\ last.op = "add_spell"
    /\ Len(known_spells) = 2
    /\ last.spell = known_spells[1]
    /\ known_spells[2] # known_spells[1]

\* C27: no narrate_* call raises, whatever its arguments (an empty
\* available_actions included): it returns a text or None; None without
\* contacting the service when narration is disabled, and None when the
\* service call fails.
NarrationNeverRaises ==
    last.op \in {"narrate_combat_start", "narrate_attack", "narrate_spell_cast",
                 "narrate_victory", "narrate_defeat", "narrate_action_choice"}
        => /\ last.err = "none"
           /\ ~enabled => (service = "idle" /\ ~last.ok)
           /\ service = "failed" => ~last.ok

\* C28: when an encounter ends with the enemy at 0 hp, the player's xp has
\* grown by the enemy's xp_value.
VictoryAwardsXp ==
    [][(/\ pc \in {"player_turn", "enemy_turn", "round_end"}
        /\ pc' \notin {"player_turn", "enemy_turn", "round_end"}
        /\ hp'["enemy"] = 0)
         => xp' = xp + goblin_xp_value]_vars

\* C29: inside an encounter both sides have hp > 0 at every prompt and
\* roll, so nobody acts at 0 hp; the player's action that brings the goblin
\* to 0 ends the encounter at once, without a goblin's attack; the
\* encounter returns True exactly when the goblin's hp is 0 at return; and
\* combat.round changes only by + 1, at the end of a round in which the
\* player and then the goblin acted and both survived.
EncounterStopsAtZero ==
    /\ [](pc \in {"player_turn", "enemy_turn", "round_end"}
            => hp["player"] > 0 /\ hp["enemy"] > 0)
    /\ [][acted' # acted /\ acted' # <<>>
            => hp[acted'[Len(acted')]] > 0]_vars
    /\ [][pc = "player_turn" /\ hp'["enemy"] = 0
            => pc' = "main" /\ victory' = "True" /\ acted' = <<"player">>]_vars
    /\ [][(/\ pc \in {"player_turn", "enemy_turn", "round_end"}
           /\ pc' \notin {"player_turn", "enemy_turn", "round_end"})
            => /\ (victory' = "True") <=> (hp'["enemy"] = 0)
               /\ victory' \in {"True", "False"}]_vars
    /\ [][pc # "main" /\ round' # round
            => /\ round' = round + 1
               /\ acted = <<"player", "enemy">>
               /\ hp["player"] > 0 /\ hp["enemy"] > 0
               /\ hp' = hp]_vars

\* The goblin fell to the player's action in the second round: the
\* encounter returned True and the goblin did not act in that round.
GoblinFallsBeforeItsTurn ==
    /\ pc = "main"
    /\ victory = "True"
    /\ hp["enemy"] = 0
    /\ hp["player"] > 0
    /\ round = 1
    /\ acted = <<"player">>


\* C30: an encounter always ends.  With a player who keeps choosing the
\* weapon attack and fair dice, for every STR score roll_stats can roll and
\* armor class 10, an encounter that has started is eventually left with
\* the goblin or the player at 0 hp.
EncounterAlwaysEnds ==
    (pc \in {"player_turn", "enemy_turn", "round_end"})
        ~> (pc \in {"main", "quit"} /\ (hp["enemy"] = 0 \/ hp["player"] = 0))

\* The weakest player (STR 3) wins an encounter that lasted MaxRound rounds
\* or more.
WeakestPlayerWinsLate ==
    /\ stats["player"]["STR"] = 3
    /\ pc = "main"
    /\ victory = "True"
    /\ hp["enemy"] = 0
    /\ hp["player"] > 0
    /\ round = MaxRound

====
